---- MODULE Spec2Model ----
(***************************************************************************)
(* Model of plugin/importer_launcher.py: launch_importer() resolves        *)
(* <dir of the script>/bin/UltralibrarianImporter.exe, checks that it      *)
(* exists, spawns it with the launcher's environment, waits for it and     *)
(* exits with its return code.                                             *)
(*                                                                         *)
(* The launcher process, the child process and the rest of the system      *)
(* (which may change the file system at any time) are modelled.  Library   *)
(* calls (os.path.*, subprocess.Popen, Popen.wait, sys.exit, print) are    *)
(* operators that compute what the call does on the platform the launcher  *)
(* runs on ("posix" or "nt").                                              *)
(***************************************************************************)
EXTENDS Integers, Sequences, FiniteSets, TLC

VARIABLES
    platform,     \* "posix" or "nt": the os module the interpreter runs on
    installDir,   \* absolute directory the script is installed in
    cwd,          \* working directory of the launcher process at invocation
    file,         \* __file__: the script's path as the interpreter records it
    exeNode,      \* what the file system holds at <installDir>/bin/UltralibrarianImporter.exe
    fsChanges,    \* number of changes other processes made to exeNode
    environ,      \* os.environ of the launcher
    pc,           \* control state of the launcher
    visited,      \* control states entered so far, in order
    script_dir,   \* local variable (line 12), <<>> while unassigned
    exe_path,     \* local variable (line 13), <<>> while unassigned
    existed,      \* result of os.path.exists (line 16), <<>> before the check
    kindAtCheck,  \* kind of the node at exe_path when line 16 ran
    stdout,       \* lines written by print
    traceback,    \* the interpreter reported an unhandled exception on stderr
    child,        \* the child process
    spawnCount,   \* processes created by the launcher
    return_code,  \* local variable (line 24), <<>> while unassigned
    envWrites,    \* assignments the launcher made into os.environ
    exitStatus    \* exit status of the launcher as its parent sees it, <<>> while alive

vars == <<platform, installDir, cwd, file, exeNode, fsChanges, environ, pc,
          visited, script_dir, exe_path, existed, kindAtCheck, stdout,
          traceback, child, spawnCount, return_code, envWrites, exitStatus>>

(***************************************************************************)
(* Bounds of the model.                                                    *)
(***************************************************************************)
MaxArgLen == 3      \* longest path (in components) the script is invoked by
MaxFsChanges == 1   \* changes other processes make to the executable's node

(***************************************************************************)
(* Integers.  Values up to 2^32-1 occur (Windows exit codes), so an        *)
(* integer n is the record [hi, lo] with n = hi * 2^16 + lo, 0 <= lo <     *)
(* 2^16; hi carries the sign.                                              *)
(***************************************************************************)
Limb == 2^16

PyInt(n) == [hi |-> n \div Limb, lo |-> n % Limb]

Word(hi, lo) == [hi |-> hi, lo |-> lo]

None == <<>>
Some(x) == <<x>>

(***************************************************************************)
(* Paths: [abs, comps], the components between separators.                 *)
(***************************************************************************)
ScriptName == "importer_launcher.py"
BinName == "bin"
ExeName == "UltralibrarianImporter.exe"

Dirs == { <<>>, <<"opt">>, <<"opt", "plugin">>, <<"home">> }
InstallDirs == { <<"opt">>, <<"opt", "plugin">> }
ArgComps == { "..", ".", "opt", "plugin", ScriptName }

RECURSIVE SeqsUpTo(_, _)
SeqsUpTo(S, n) ==
    IF n = 0 THEN { <<>> }
    ELSE LET shorter == SeqsUpTo(S, n - 1)
         IN  shorter \cup { Append(s, c) : s \in shorter, c \in S }

PathArgs == { [abs |-> a, comps |-> s] :
                a \in BOOLEAN, s \in SeqsUpTo(ArgComps, MaxArgLen) \ { <<>> } }

ScriptLoc == Append(installDir, ScriptName)
ExeLoc == installDir \o <<BinName, ExeName>>

\* The node kinds of the file system: the fixed directories, the script,
\* the bin directory and whatever is at the executable's place.
NodeKind(q) ==
    IF q \in Dirs \/ q = Append(installDir, BinName) THEN "dir"
    ELSE IF q = ScriptLoc THEN "file"
    ELSE IF q = ExeLoc THEN exeNode.kind
    ELSE "absent"

\* Path lookup as the operating system does it: component by component from
\* the root or the working directory, each step from an existing directory.
RECURSIVE Walk(_, _)
Walk(at, comps) ==
    IF comps = <<>> THEN Some(at)
    ELSE IF NodeKind(at) # "dir" THEN None
    ELSE LET c == Head(comps)
         IN  IF c = "." THEN Walk(at, Tail(comps))
             ELSE IF c = ".."
                  THEN Walk(IF at = <<>> THEN at ELSE SubSeq(at, 1, Len(at) - 1),
                            Tail(comps))
             ELSE Walk(Append(at, c), Tail(comps))

Lookup(dir, p) == Walk(IF p.abs THEN <<>> ELSE dir, p.comps)

LookupKind(dir, p) ==
    LET r == Lookup(dir, p)
    IN  IF r = None THEN "absent" ELSE NodeKind(r[1])

(***************************************************************************)
(* os.path, as used on lines 12, 13 and 16.                                *)
(***************************************************************************)
\* normpath: the loop over the components of posixpath/ntpath.normpath
RECURSIVE normcomps(_, _, _)
normcomps(comps, new, initial_slash) ==
    IF comps = <<>> THEN new
    ELSE LET comp == Head(comps)
             rest == Tail(comps)
         IN  IF comp = "." THEN normcomps(rest, new, initial_slash)
             ELSE IF \/ comp # ".."
                     \/ (~initial_slash /\ new = <<>>)
                     \/ (new # <<>> /\ new[Len(new)] = "..")
                  THEN normcomps(rest, Append(new, comp), initial_slash)
             ELSE IF new # <<>>
                  THEN normcomps(rest, SubSeq(new, 1, Len(new) - 1), initial_slash)
             ELSE normcomps(rest, new, initial_slash)

normpath(p) == [abs |-> p.abs, comps |-> normcomps(p.comps, <<>>, p.abs)]

\* join(a, b): an absolute b replaces a, a relative b is appended
join(a, b) == IF b.abs THEN b ELSE [abs |-> a.abs, comps |-> a.comps \o b.comps]

Rel(comps) == [abs |-> FALSE, comps |-> comps]
Abs(comps) == [abs |-> TRUE, comps |-> comps]

\* abspath that forgets the working directory
abspath_nocwd(path, dir) == normpath(path)

\* abspath(path) in a process whose working directory is dir
abspath(path, dir) == normpath(IF path.abs THEN path ELSE join(Abs(dir), path))

\* dirname(p): everything before the last separator
dirname(p) ==
    [abs |-> p.abs,
     comps |-> IF p.comps = <<>> THEN <<>> ELSE SubSeq(p.comps, 1, Len(p.comps) - 1)]

\* os.path.exists(p): os.stat succeeds, whatever kind of node p names
exists(p) == LookupKind(cwd, p) # "absent"

(***************************************************************************)
(* The environment mapping and the processes.                              *)
(***************************************************************************)
Environs ==
    { [v \in {"PATH"} |-> "/usr/bin"],
      [v \in {"UL_CUSTOM"} |-> "x"],
      [v \in {"PATH", "UL_CUSTOM"} |-> IF v = "PATH" THEN "/usr/bin" ELSE "x"],
      [v \in {"PATH", "UL_CUSTOM"} |-> IF v = "PATH" THEN "/usr/bin" ELSE "y"] }

\* dict.update(d, other)
update(d, other) ==
    [k \in DOMAIN d \cup DOMAIN other |-> IF k \in DOMAIN other THEN other[k] ELSE d[k]]

ExeNodes ==
    { [kind |-> "absent", runnable |-> FALSE],
      [kind |-> "dir", runnable |-> FALSE],
      [kind |-> "file", runnable |-> FALSE],
      [kind |-> "file", runnable |-> TRUE] }

NoChild ==
    [state |-> "none", path |-> Rel(<<>>), env |-> [v \in {"PATH"} |-> ""],
     status |-> Word(0, 0)]

\* How a child can end.  posix: exit(0..255) or death by a signal.  nt:
\* ExitProcess with any 32-bit unsigned code (0xC0000005 is an access
\* violation, 0xFFFFFFFE is "return -2" from main).
ChildOutcomes ==
    IF platform = "posix"
    THEN { [how |-> "exited", status |-> Word(0, c)] : c \in {0, 1, 42, 255} }
         \cup { [how |-> "signaled", status |-> Word(0, sig)] : sig \in {9, 15} }
    ELSE { [how |-> "exited", status |-> w] :
             w \in { Word(0, 0), Word(0, 1), Word(0, 42), Word(0, 256),
                     Word(2^15 - 1, Limb - 1), Word(2^15, 0), Word(49152, 5),
                     Word(Limb - 1, Limb - 2), Word(Limb - 1, Limb - 1) } }

\* a Popen that hands the child a filtered environment
Popen_filtered(args, env) ==
    LET kind == LookupKind(cwd, args)
        kept == DOMAIN env \cap {"PATH"}
    IN  IF kind = "file" /\ exeNode.runnable
        THEN [ok |-> TRUE, exc |-> "",
              proc |-> [state |-> "running", path |-> args,
                        env |-> [v \in kept |-> env[v]], status |-> Word(0, 0)]]
        ELSE [ok |-> FALSE,
              exc |-> IF kind = "absent" THEN "FileNotFoundError" ELSE "PermissionError",
              proc |-> NoChild]

\* subprocess.Popen(args, env=env): the operating system creates a process
\* from a runnable file and refuses anything else, which Popen reports by
\* raising an OSError (FileNotFoundError, PermissionError, ...).
Popen(args, env) ==
    LET kind == LookupKind(cwd, args)
    IN  IF kind = "file" /\ exeNode.runnable
        THEN [ok |-> TRUE, exc |-> "",
              proc |-> [state |-> "running", path |-> args, env |-> env,
                        status |-> Word(0, 0)]]
        ELSE [ok |-> FALSE,
              exc |-> IF kind = "absent" THEN "FileNotFoundError" ELSE "PermissionError",
              proc |-> NoChild]

\* poll() in place of wait(): returns whether or not the child has ended
WaitReturns_poll(proc) == proc.state # "none"

\* Popen.wait() blocks until the child has terminated
WaitReturns(proc) == proc.state \in {"exited", "signaled"}

\* the returncode wait() gives: posix WEXITSTATUS, or -WTERMSIG for a death
\* by signal; nt GetExitCodeProcess, an unsigned 32-bit value
wait(proc) ==
    IF proc.state = "signaled" THEN PyInt(-(proc.status.lo)) ELSE proc.status

\* an exit call that returns to its caller
sys_exit_returns(code) == [raises |-> FALSE, status |-> Word(0, 0)]

\* sys.exit(code) raises SystemExit; the interpreter converts code to a C
\* long (64 bits on posix, 32 on nt; -1 on overflow), casts it to int and
\* calls exit(): the parent sees the low 8 bits on posix, 32 bits on nt.
sys_exit(code) ==
    LET fits == platform = "posix" \/ (code.hi >= -(2^15) /\ code.hi < 2^15)
        long == IF fits THEN code ELSE PyInt(-1)
    IN  [raises |-> TRUE,
         status |-> IF platform = "posix" THEN Word(0, long.lo % 256)
                    ELSE Word(long.hi % Limb, long.lo)]

\* an exception nobody handles: traceback on stderr, exit status 1
UnhandledStatus == Word(0, 1)

\* a message that names the script's directory, not the executable
print_script_dir(path) ==
    [text |-> "Error: Executable not found at ", path |-> dirname(dirname(path))]

\* print(f"Error: Executable not found at {exe_path}")
print(path) == [text |-> "Error: Executable not found at ", path |-> path]

(***************************************************************************)
(* The launcher.                                                           *)
(***************************************************************************)
Init ==
    /\ platform \in {"posix", "nt"}
    /\ installDir \in InstallDirs
    /\ cwd \in Dirs
    /\ exeNode \in ExeNodes
    /\ file \in { p \in PathArgs : Lookup(cwd, p) = Some(ScriptLoc) }
    /\ fsChanges = 0
    /\ environ \in Environs
    /\ pc = "Start"
    /\ visited = <<"Start">>
    /\ script_dir = None
    /\ exe_path = None
    /\ existed = None
    /\ kindAtCheck = "unchecked"
    /\ stdout = <<>>
    /\ traceback = FALSE
    /\ child = NoChild
    /\ spawnCount = 0
    /\ return_code = None
    /\ envWrites = 0
    /\ exitStatus = None

Enter(s) == pc' = s /\ visited' = Append(visited, s)

Terminate(status) == exitStatus' = Some(status) /\ Enter("Exited")

\* line 28: the module calls launch_importer()
Invoke ==
    /\ pc = "Start"
    /\ Enter("ResolvePath")
    /\ UNCHANGED <<platform, installDir, cwd, file, exeNode, fsChanges, environ,
                   script_dir, exe_path, existed, kindAtCheck, stdout, traceback,
                   child, spawnCount, return_code, envWrites, exitStatus>>

\* lines 12-13
ResolvePath ==
    /\ pc = "ResolvePath"
    /\ LET dir == dirname(abspath(file, cwd))
       IN  /\ script_dir' = Some(dir)
           /\ exe_path' = Some(join(join(dir, Rel(<<BinName>>)), Rel(<<ExeName>>)))
    /\ Enter("CheckExists")
    /\ UNCHANGED <<platform, installDir, cwd, file, exeNode, fsChanges, environ,
                   existed, kindAtCheck, stdout, traceback, child, spawnCount,
                   return_code, envWrites, exitStatus>>

\* line 16
CheckExists ==
    /\ pc = "CheckExists"
    /\ existed' = Some(exists(exe_path[1]))
    /\ kindAtCheck' = LookupKind(cwd, exe_path[1])
    /\ IF exists(exe_path[1]) THEN Enter("Launch") ELSE Enter("Fail")
    /\ UNCHANGED <<platform, installDir, cwd, file, exeNode, fsChanges, environ,
                   script_dir, exe_path, stdout, traceback, child, spawnCount,
                   return_code, envWrites, exitStatus>>

\* lines 17-18
Fail ==
    /\ pc = "Fail"
    /\ stdout' = Append(stdout, print(exe_path[1]))
    /\ LET r == sys_exit(PyInt(1))
       IN  IF r.raises
           THEN Terminate(r.status)
           ELSE Enter("Launch") /\ UNCHANGED exitStatus
    /\ UNCHANGED <<platform, installDir, cwd, file, exeNode, fsChanges, environ,
                   script_dir, exe_path, existed, kindAtCheck, traceback, child,
                   spawnCount, return_code, envWrites>>

\* a launch that catches the OSError and reports it like a missing file
Launch_handled ==
    /\ pc = "Launch"
    /\ LET r == Popen(exe_path[1], environ)
       IN  IF r.ok
           THEN /\ child' = r.proc
                /\ spawnCount' = spawnCount + 1
                /\ Enter("Wait")
                /\ UNCHANGED <<stdout, exitStatus>>
           ELSE /\ stdout' = Append(stdout, print(exe_path[1]))
                /\ Terminate(Word(0, 1))
                /\ UNCHANGED <<child, spawnCount>>
    /\ UNCHANGED <<platform, installDir, cwd, file, exeNode, fsChanges, environ,
                   script_dir, exe_path, existed, kindAtCheck, traceback,
                   return_code, envWrites>>

\* line 21
Launch ==
    /\ pc = "Launch"
    /\ LET r == Popen(exe_path[1], environ)
       IN  IF r.ok
           THEN /\ child' = r.proc
                /\ spawnCount' = spawnCount + 1
                /\ Enter("Wait")
                /\ UNCHANGED <<traceback, exitStatus>>
           ELSE /\ traceback' = TRUE
                /\ Terminate(UnhandledStatus)
                /\ UNCHANGED <<child, spawnCount>>
    /\ UNCHANGED <<platform, installDir, cwd, file, exeNode, fsChanges, environ,
                   script_dir, exe_path, existed, kindAtCheck, stdout,
                   return_code, envWrites>>

\* a wait that launches the executable once more when it failed
Wait_retries ==
    /\ pc = "Wait"
    /\ WaitReturns(child)
    /\ return_code' = Some(wait(child))
    /\ IF wait(child) # PyInt(0) /\ spawnCount < 2
       THEN Enter("Launch")
       ELSE Enter("Propagate")
    /\ UNCHANGED <<platform, installDir, cwd, file, exeNode, fsChanges, environ,
                   script_dir, exe_path, existed, kindAtCheck, stdout, traceback,
                   child, spawnCount, envWrites, exitStatus>>

\* line 24
Wait ==
    /\ pc = "Wait"
    /\ WaitReturns(child)
    /\ return_code' = Some(wait(child))
    /\ Enter("Propagate")
    /\ UNCHANGED <<platform, installDir, cwd, file, exeNode, fsChanges, environ,
                   script_dir, exe_path, existed, kindAtCheck, stdout, traceback,
                   child, spawnCount, envWrites, exitStatus>>

\* lines 25-26: line 26 runs only if sys.exit returns
Propagate ==
    /\ pc = "Propagate"
    /\ LET r == sys_exit(return_code[1])
       IN  IF r.raises
           THEN Terminate(r.status) /\ UNCHANGED <<environ, envWrites>>
           ELSE /\ environ' = update(environ, environ)
                /\ envWrites' = envWrites + 1
                /\ Terminate(Word(0, 0))
    /\ UNCHANGED <<platform, installDir, cwd, file, exeNode, fsChanges,
                   script_dir, exe_path, existed, kindAtCheck, stdout, traceback,
                   child, spawnCount, return_code>>

(***************************************************************************)
(* The rest of the system.                                                 *)
(***************************************************************************)
\* the child process ends, by itself or killed
ChildTerminates ==
    /\ child.state = "running"
    /\ \E o \in ChildOutcomes :
         child' = [child EXCEPT !.state = o.how, !.status = o.status]
    /\ UNCHANGED <<platform, installDir, cwd, file, exeNode, fsChanges, environ,
                   pc, visited, script_dir, exe_path, existed, kindAtCheck,
                   stdout, traceback, spawnCount, return_code, envWrites,
                   exitStatus>>

\* another process creates, removes or replaces the node at the executable's
\* place while the launcher runs
FsChange ==
    /\ pc # "Exited"
    /\ fsChanges < MaxFsChanges
    /\ \E n \in ExeNodes \ {exeNode} : exeNode' = n
    /\ fsChanges' = fsChanges + 1
    /\ UNCHANGED <<platform, installDir, cwd, file, environ, pc, visited,
                   script_dir, exe_path, existed, kindAtCheck, stdout, traceback,
                   child, spawnCount, return_code, envWrites, exitStatus>>

LauncherStep ==
    Invoke \/ ResolvePath \/ CheckExists \/ Fail \/ Launch \/ Wait \/ Propagate

Next == LauncherStep \/ ChildTerminates \/ FsChange

Spec == Init /\ [][Next]_vars

\* the operating system keeps scheduling the launcher while it can run
FairSpec == Spec /\ WF_vars(LauncherStep)

(***************************************************************************)
(* Properties.                                                             *)
(***************************************************************************)
Terminated(proc) == proc.state \in {"exited", "signaled"}

IsPrefix(s, t) == Len(s) <= Len(t) /\ SubSeq(t, 1, Len(s)) = s

Entered(s) == \E i \in 1..Len(visited) : visited[i] = s

FailRun == <<"Start", "ResolvePath", "CheckExists", "Fail", "Exited">>
LaunchRun ==
    <<"Start", "ResolvePath", "CheckExists", "Launch", "Wait", "Propagate", "Exited">>
SpawnRefusedRun == <<"Start", "ResolvePath", "CheckExists", "Launch", "Exited">>

\* C1: whenever the child was spawned and ended by returning exit code N, the
\* launcher has exited with status N.
C1_ExitCodePassthrough ==
    (pc = "Exited" /\ return_code # None /\ child.state = "exited")
        => exitStatus = Some(child.status)

\* C2: when the resolved path does not exist at the existence check, the
\* launcher spawns nothing, prints one message holding the resolved path,
\* and ends with exit status 1.
C2_MissingExecutable ==
    existed = Some(FALSE) =>
        /\ spawnCount = 0
        /\ child.state = "none"
        /\ pc \in {"Fail", "Exited"}
        /\ pc = "Exited" =>
             /\ Len(stdout) = 1
             /\ stdout[1].path = exe_path[1]
             /\ stdout[1].path = Abs(ExeLoc)
             /\ exitStatus = Some(Word(0, 1))

C2_Witness ==
    /\ pc = "Exited"
    /\ existed = Some(FALSE)
    /\ stdout = <<print(Abs(ExeLoc))>>
    /\ exitStatus = Some(Word(0, 1))

\* C3 as stated: once the existence check has passed, the launcher ends only
\* by handing on the child's return code, never with a status of its own.
C3_OnlyMissingExecutable ==
    (pc = "Exited" /\ existed = Some(TRUE))
        => (spawnCount = 1 /\ return_code # None /\ ~traceback)

\* C3 amended: a launcher-made exit status 1 has two causes.  Either the
\* existence check failed (diagnostic, no traceback), or it passed and Popen
\* raised: then there is no child, no diagnostic, and the unhandled exception
\* ends the launcher with a traceback and status 1.  When the check passed
\* and the spawn succeeded the launcher ends through Propagate only, with the
\* status derived from the child's return code.
C3_Amended ==
    pc = "Exited" =>
        \/ /\ existed = Some(FALSE)
           /\ ~traceback
           /\ Len(stdout) = 1
           /\ exitStatus = Some(Word(0, 1))
        \/ /\ existed = Some(TRUE)
           /\ spawnCount = 0
           /\ traceback
           /\ stdout = <<>>
           /\ return_code = None
           /\ exitStatus = Some(Word(0, 1))
        \/ /\ existed = Some(TRUE)
           /\ spawnCount = 1
           /\ ~traceback
           /\ stdout = <<>>
           /\ Terminated(child)
           /\ return_code # None
           /\ Entered("Propagate")

C3_Witness ==
    /\ pc = "Exited"
    /\ existed = Some(TRUE)
    /\ kindAtCheck = "file"
    /\ traceback
    /\ exitStatus = Some(Word(0, 1))

\* C4: whatever the working directory and however the script was named, the
\* path checked and launched is <directory of the script>/bin/
\* UltralibrarianImporter.exe, so the outcome does not depend on the working
\* directory.
C4_PathResolution ==
    /\ script_dir # None => script_dir = Some(Abs(installDir))
    /\ exe_path # None => exe_path = Some(Abs(ExeLoc))
    /\ child.state # "none" => child.path = Abs(ExeLoc)

C4_Witness ==
    /\ pc = "Exited"
    /\ cwd = <<"home">>
    /\ ~file.abs
    /\ child.path = Abs(ExeLoc)
    /\ child.state = "exited"
    /\ child.status = Word(0, 42)
    /\ exitStatus = Some(Word(0, 42))

\* C5: the environment the child was given is the launcher's environment,
\* variable for variable.
C5_EnvPassthrough ==
    child.state # "none" =>
        /\ DOMAIN child.env = DOMAIN environ
        /\ \A v \in DOMAIN environ : child.env[v] = environ[v]

C5_Witness ==
    /\ child.state = "running"
    /\ "UL_CUSTOM" \in DOMAIN child.env
    /\ child.env["UL_CUSTOM"] = "y"
    /\ child.env = environ

\* C6: when the path does not name an existing file at the existence check
\* (nothing there, or a directory), the launcher takes the Fail branch and
\* never reaches Launch.
C6_ExistenceIsFileCheck ==
    (existed # None /\ kindAtCheck # "file")
        => (existed = Some(FALSE) /\ ~Entered("Launch") /\ spawnCount = 0)

\* C7 as stated: every run is a prefix of Start, ResolvePath, CheckExists,
\* then Fail or Launch, Wait, Propagate; the process ends from Fail or from
\* Propagate only.
C7_LinearFlow ==
    /\ IsPrefix(visited, FailRun) \/ IsPrefix(visited, LaunchRun)
    /\ Entered("Launch") => existed = Some(TRUE)

\* C7 amended: every run is a prefix of Start, ResolvePath, CheckExists, then
\* Fail, or Launch, Wait, Propagate, or Launch alone: each state at most
\* once, in that order, Launch only after a successful check, and no run
\* reaches both Fail and Propagate.  The process ends from Fail, from
\* Propagate, or from Launch when the spawn raises.
C7_Amended ==
    /\ \/ IsPrefix(visited, FailRun)
       \/ IsPrefix(visited, LaunchRun)
       \/ IsPrefix(visited, SpawnRefusedRun)
    /\ Entered("Launch") => existed = Some(TRUE)
    /\ Entered("Fail") => existed = Some(FALSE)
    /\ ~(Entered("Fail") /\ Entered("Propagate"))
    /\ pc = visited[Len(visited)]

C7_Witness == visited = SpawnRefusedRun

\* C8: the launcher never ends while a child it spawned is running; while
\* the child runs the launcher stays in Wait (no timeout, no retry); once the
\* child has ended the launcher ends.
C8_BlockingWait ==
    /\ []((pc = "Exited" /\ spawnCount > 0) => Terminated(child))
    /\ [][(pc = "Wait" /\ child.state = "running") => pc' = "Wait"]_vars
    /\ (pc = "Wait" /\ Terminated(child)) ~> (pc = "Exited")

C8_Witness ==
    /\ pc = "Exited"
    /\ spawnCount = 1
    /\ Terminated(child)
    /\ visited = LaunchRun

\* C9 as stated: at most one child, at most one diagnostic line, never both;
\* a diagnostic only on the Fail branch, and on the Launch branch exactly one
\* child and no diagnostic.
C9_BoundedSideEffects ==
    /\ spawnCount <= 1
    /\ Len(stdout) <= 1
    /\ ~(spawnCount > 0 /\ Len(stdout) > 0)
    /\ Len(stdout) > 0 => (Entered("Fail") /\ ~Entered("Launch"))
    /\ (Entered("Launch") /\ pc # "Launch") => (spawnCount = 1 /\ stdout = <<>>)

\* C9 amended: at most one child, at most one diagnostic line, never both; a
\* diagnostic only on the Fail branch, where nothing is spawned; on the
\* Launch branch no diagnostic is printed and at most one child is spawned:
\* exactly one when Popen succeeds, none when it raises (the interpreter
\* then reports the unhandled exception).
C9_Amended ==
    /\ spawnCount <= 1
    /\ Len(stdout) <= 1
    /\ ~(spawnCount > 0 /\ Len(stdout) > 0)
    /\ Len(stdout) > 0 => (Entered("Fail") /\ ~Entered("Launch"))
    /\ Entered("Fail") => spawnCount = 0
    /\ (Entered("Launch") /\ pc # "Launch") =>
         /\ stdout = <<>>
         /\ \/ spawnCount = 1 /\ ~traceback
            \/ spawnCount = 0 /\ traceback /\ pc = "Exited"

C9_Witness ==
    /\ Entered("Launch")
    /\ pc = "Exited"
    /\ spawnCount = 0
    /\ traceback
    /\ stdout = <<>>

\* C10: line 26 never runs: the launcher has ended on line 25, and it never
\* writes to its environment mapping.
C10_EnvUpdateUnreachable ==
    /\ envWrites = 0
    /\ Entered("Propagate") => (pc \in {"Propagate", "Exited"})

C10_Witness ==
    /\ pc = "Exited"
    /\ return_code # None
    /\ visited = LaunchRun
    /\ envWrites = 0

====
